---- MODULE Spec2Model ----
(***************************************************************************)
(* mon_school: the livecode client (mon_school/livecode.py) and the sketch *)
(* render cache (mon_school/doctype/lms_sketch/lms_sketch.py).             *)
(*                                                                         *)
(* Python text is a sequence of one-character strings, so that join,       *)
(* split, strip, replace, html.escape and substring search are computed.   *)
(* A Python value is a tagged record (None, StrV, IntV, ListV); a dict is the *)
(* sequence of its <<key, value>> items in insertion order.  A call's      *)
(* outcome carries exc, the class of the exception it raised, or NoExc.    *)
(***************************************************************************)
EXTENDS Integers, Sequences, FiniteSets, TLC

VARIABLES
  clf,       \* a LiveCodeResult handed to find_exception_details, and what came back
  shapes0,   \* the shapes of one execution result, as received
  shapes,    \* the same list objects now (the renderer works on them in place)
  renders,   \* the outcomes of the _render_svg calls made on them so far
  xc,        \* a request to execute: what the network did, and what the call gave
  cache,     \* frappe.cache(): the bytes stored under each key, or None
  first,     \* under each key, the first markup a render_svg call ever stored
  rq         \* per caller, the to_svg / render_svg call it is in; warm tells that
             \* a markup had been stored under its key when it looked the key up

vars == <<clf, shapes0, shapes, renders, xc, cache, first, rq>>

(***************************************************************************)
(* Bounds                                                                  *)
(***************************************************************************)
MaxChunks == 3     \* output chunks of a classified result
MaxDepth == 2      \* nesting depth of a shape tree
MaxRenders == 2    \* _render_svg calls on one result's shapes
MaxFrames == 2     \* texts received in one exchange
NumCallers == 2    \* requests rendering sketches at the same time

(***************************************************************************)
(* Python values and text                                                  *)
(***************************************************************************)
None == [t |-> "None"]
StrV(cs) == [t |-> "str", v |-> cs]
IntV(n) == [t |-> "int", v |-> n]
ListV(xs) == [t |-> "list", v |-> xs]

NoExc == ""

Range(s) == {s[i] : i \in 1..Len(s)}

Min(S) == CHOOSE x \in S : \A y \in S : x <= y

Max(S) == CHOOSE x \in S : \A y \in S : x >= y

RECURSIVE Concat(_)
\* "".join(parts)
Concat(parts) ==
  IF parts = <<>> THEN <<>> ELSE Head(parts) \o Concat(Tail(parts))

RECURSIVE JoinWith(_, _)
\* sep.join(parts)
JoinWith(sep, parts) ==
  IF parts = <<>> THEN <<>>
  ELSE IF Len(parts) = 1 THEN Head(parts)
  ELSE Head(parts) \o sep \o JoinWith(sep, Tail(parts))

\* sub in s
Contains(s, sub) ==
  \E i \in 1..(Len(s) - Len(sub) + 1) : SubSeq(s, i, i + Len(sub) - 1) = sub

\* s.split(c, 1), for c in s
SplitFirst(s, c) ==
  LET i == Min({j \in 1..Len(s) : s[j] = c})
  IN  <<SubSeq(s, 1, i - 1), SubSeq(s, i + 1, Len(s))>>

Whitespace == {" ", "\n", "\t", "\r"}

\* s.strip()
Strip(s) ==
  LET keep == {i \in 1..Len(s) : s[i] \notin Whitespace}
  IN  IF keep = {} THEN <<>> ELSE SubSeq(s, Min(keep), Max(keep))

RECURSIVE Replace(_, _, _)
\* s.replace(c, r), c one character
Replace(s, c, r) ==
  IF s = <<>> THEN <<>>
  ELSE (IF Head(s) = c THEN r ELSE <<Head(s)>>) \o Replace(Tail(s), c, r)

Digits == <<"0", "1", "2", "3", "4", "5", "6", "7", "8", "9">>

RECURSIVE NatToStr(_)
NatToStr(n) ==
  IF n < 10 THEN <<Digits[n + 1]>>
  ELSE NatToStr(n \div 10) \o <<Digits[(n % 10) + 1]>>

\* str(v) for the scalars a shape attribute holds
PyStr(x) ==
  IF x.t = "int"
  THEN (IF x.v < 0 THEN <<"-">> \o NatToStr(-x.v) ELSE NatToStr(x.v))
  ELSE x.v

\* html.escape without its first replacement
HtmlEscapeWithoutAmp(s) ==
  LET s1 == Replace(s, "<", <<"&", "l", "t", ";">>)
      s2 == Replace(s1, ">", <<"&", "g", "t", ";">>)
      s3 == Replace(s2, "\"", <<"&", "q", "u", "o", "t", ";">>)
      s4 == Replace(s3, "'", <<"&", "#", "x", "2", "7", ";">>)
  IN  s4

\* html.escape(s, quote=True): the replacements in the library's order
html_escape(s) ==
  LET s0 == Replace(s, "&", <<"&", "a", "m", "p", ";">>)
      s1 == Replace(s0, "<", <<"&", "l", "t", ";">>)
      s2 == Replace(s1, ">", <<"&", "g", "t", ";">>)
      s3 == Replace(s2, "\"", <<"&", "q", "u", "o", "t", ";">>)
      s4 == Replace(s3, "'", <<"&", "#", "x", "2", "7", ";">>)
  IN  s4

(***************************************************************************)
(* dict operations on a sequence of <<key, value>> items                   *)
(***************************************************************************)
HasKey(d, k) == \E i \in 1..Len(d) : d[i][1] = k

Get(d, k) == d[CHOOSE i \in 1..Len(d) : d[i][1] = k][2]

\* d after d.pop(k) / d.pop(k, None)
Without(d, k) == SelectSeq(d, LAMBDA e : e[1] # k)

(***************************************************************************)
(* LiveCodeResult.find_exception_details                                   *)
(***************************************************************************)
TRACEBACK_MARKER ==
  <<
     "T","r","a","c","e","b","a","c","k"," ","(","m","o","s","t"," ","r","e","c","e","n","t",
     " ","c","a","l","l"," ","l","a","s","t",")",":" >>

find_exception_details(self) ==
  IF self.status # "failed" \/ self.output = <<>>
  THEN [exc |-> NoExc, val |-> <<None, None>>]
  ELSE IF ~Contains(Concat(self.output), TRACEBACK_MARKER)
  THEN [exc |-> NoExc, val |-> <<None, None>>]
  ELSE LET last == self.output[Len(self.output)]
       IN  IF ":" \in Range(last)
           THEN LET parts == SplitFirst(last, ":")
                IN  [exc |-> NoExc,
                     val |-> <<StrV(Strip(parts[1])), StrV(Strip(parts[2]))>>]
           \* exctype and message were never bound
           ELSE [exc |-> "UnboundLocalError", val |-> <<None, None>>]

(***************************************************************************)
(* _render_svg / _render_shape                                             *)
(***************************************************************************)
SVG_HEADER ==
  <<
     "<","s","v","g"," ","w","i","d","t","h","=","\"","3","0","0","\""," ","h","e","i","g","h",
     "t","=","\"","3","0","0","\""," ","v","i","e","w","B","o","x","=","\"","-","1","5","0"," ",
     "-","1","5","0"," ","3","0","0"," ","3","0","0","\""," ","f","i","l","l","=","\"","n","o",
     "n","e","\""," ","s","t","r","o","k","e","=","\"","b","l","a","c","k","\""," ","x","m","l",
     "n","s","=","\"","h","t","t","p",":","/","/","w","w","w",".","w","3",".","o","r","g","/",
     "2","0","0","0","/","s","v","g","\""," ","x","m","l","n","s",":","x","l","i","n","k","=",
     "\"","h","t","t","p",":","/","/","w","w","w",".","w","3",".","o","r","g","/","1","9","9",
     "9","/","x","l","i","n","k","\"",">","\n" >>

SVG_FOOTER ==
  <<
     "<","/","s","v","g",">","\n" >>

K_tag == <<"t", "a", "g">>

K_children == <<"c", "h", "i", "l", "d", "r", "e", "n">>

\* line 103 without k.replace("_", "-")
AttrItemsKeepingUnderscores(node) ==
  LET kept == SelectSeq(node, LAMBDA e : e[2] # None)
  IN  [i \in 1..Len(kept) |-> <<kept[i][1], html_escape(PyStr(kept[i][2]))>>]

\* the (name, value) pairs of line 103, in the dict's order
AttrItems(node) ==
  LET kept == SelectSeq(node, LAMBDA e : e[2] # None)
  IN  [i \in 1..Len(kept) |->
         <<Replace(kept[i][1], "_", <<"-">>), html_escape(PyStr(kept[i][2]))>>]

\* ' '.join(f'{name}="{value}"' ...)
AttrText(items) ==
  JoinWith(<<" ">>,
           [i \in 1..Len(items) |-> items[i][1] \o <<"=", "\"">> \o items[i][2] \o <<"\"">>])

\* bool(children) for what node.pop("children", None) gave
Truthy(x) == x.t = "list" /\ x.v # <<>>

RECURSIVE _render_shape(_)
RECURSIVE RenderEach(_)

\* "\n".join(_render_shape(s) for s in nodes), left to right, stopping at the
\* first exception; nodes is the list as the calls made so far left it
RenderEach(nodes) ==
  IF nodes = <<>> THEN [exc |-> NoExc, parts |-> <<>>, nodes |-> <<>>]
  ELSE LET h == _render_shape(Head(nodes))
       IN  IF h.exc # NoExc
           THEN [exc |-> h.exc, parts |-> <<>>, nodes |-> <<h.node>> \o Tail(nodes)]
           ELSE LET r == RenderEach(Tail(nodes))
                IN  [exc |-> r.exc,
                     parts |-> <<h.svg>> \o r.parts,
                     nodes |-> <<h.node>> \o r.nodes]

\* node is the dict after the call: tag and children are popped out of it
_render_shape(node) ==
  IF ~HasKey(node, K_tag)
  THEN [exc |-> "KeyError", svg |-> <<>>, node |-> node]
  ELSE LET tag == PyStr(Get(node, K_tag))
           n1 == Without(node, K_tag)
           children == IF HasKey(n1, K_children) THEN Get(n1, K_children) ELSE None
           n2 == Without(n1, K_children)
           attrs == AttrText(AttrItems(n2))
       IN  IF Truthy(children)
           THEN LET kids == RenderEach(children.v)
                IN  IF kids.exc # NoExc
                    THEN [exc |-> kids.exc, svg |-> <<>>, node |-> n2]
                    ELSE [exc |-> NoExc,
                          svg |-> <<"<">> \o tag \o <<" ">> \o attrs \o <<">">>
                                  \o JoinWith(<<"\n">>, kids.parts)
                                  \o <<"<", "/">> \o tag \o <<">">>,
                          node |-> n2]
           ELSE [exc |-> NoExc,
                 svg |-> <<"<">> \o tag \o <<" ">> \o attrs \o <<" ", "/", ">">>,
                 node |-> n2]

\* shapes is the list after the call
_render_svg(shapes_) ==
  LET r == RenderEach(shapes_)
  IN  IF r.exc # NoExc
      THEN [exc |-> r.exc, svg |-> <<>>, shapes |-> r.nodes]
      ELSE [exc |-> NoExc,
            svg |-> SVG_HEADER \o JoinWith(<<"\n">>, r.parts) \o <<"\n">> \o SVG_FOOTER,
            shapes |-> r.nodes]

(***************************************************************************)
(* LiveCodeResult                                                          *)
(***************************************************************************)
\* LiveCodeResult(); error_code "None" is Python's None
NewResult == [status |-> "success", error_code |-> "None", output |-> <<>>, shapes |-> <<>>]

mark_failed(self, error_code) == [self EXCEPT !.status = "failed", !.error_code = error_code]

\* self.output.insert(0, output) in place of append
add_output_first(self, output) == [self EXCEPT !.output = <<output>> \o @]

add_output(self, output) == [self EXCEPT !.output = Append(@, output)]

add_shape(self, shape) == [self EXCEPT !.shapes = Append(@, shape)]

\* dict(self.__dict__): the same four entries, the lists shared with the result
as_dict(self) ==
  [status |-> self.status, error_code |-> self.error_code,
   output |-> self.output, shapes |-> self.shapes]

(***************************************************************************)
(* Exceptions.  IOError is OSError; the websocket and socket errors the    *)
(* transport raises are subclasses of the two classes execute names.       *)
(***************************************************************************)
Bases(e) ==
  CASE e = "WebSocketTimeoutException" -> {"WebSocketException"}
    [] e = "WebSocketConnectionClosedException" -> {"WebSocketException"}
    [] e = "WebSocketBadStatusException" -> {"WebSocketException"}
    [] e = "ConnectionRefusedError" -> {"OSError"}
    [] e = "ConnectionResetError" -> {"OSError"}
    [] e = "BrokenPipeError" -> {"OSError"}
    [] e = "JSONDecodeError" -> {"ValueError"}
    [] OTHER -> {}

IsInstance(e, classes) == e \in classes \/ Bases(e) \cap classes # {}

\* except (IOError, websocket.WebSocketException), without the second class
ExecuteCatchesIOErrorOnly == {"OSError"}

\* except (IOError, websocket.WebSocketException)
ExecuteCatches == {"OSError", "WebSocketException"}

\* except websocket.WebSocketTimeoutException
ReadCatches == {"WebSocketTimeoutException"}

(***************************************************************************)
(* LiveCode.execute.  net is what the network does during the call: conn   *)
(* and send are "ok" or the exception ws.connect / ws.send raises, frames  *)
(* are the texts ws.recv returns in order, and ending is what the recv     *)
(* after them does: "close" (it returns an empty text) or an exception.    *)
(***************************************************************************)
\* json.loads(msg): a frame is a text that is or is not JSON, with the object it holds
json_loads(frame) ==
  IF frame.json THEN [exc |-> NoExc, val |-> frame.obj]
  ELSE [exc |-> "JSONDecodeError", val |-> frame.obj]

RECURSIVE ReadLoop(_, _, _, _)
\* the while loop of _read_messages inside its try
ReadLoop(frames, ending, messages, recvs) ==
  IF frames = <<>>
  THEN IF ending = "close"
       THEN [exc |-> NoExc, messages |-> messages, recvs |-> recvs + 1]
       ELSE [exc |-> ending, messages |-> messages, recvs |-> recvs + 1]
  ELSE LET j == json_loads(Head(frames))
       IN  IF j.exc # NoExc
           THEN [exc |-> j.exc, messages |-> messages, recvs |-> recvs + 1]
           ELSE ReadLoop(Tail(frames), ending, Append(messages, j.val), recvs + 1)

\* lines 224-227: a timeout ends the read with the messages read before it
ReadEnd(r) ==
  IF r.exc # NoExc /\ IsInstance(r.exc, ReadCatches)
  THEN [r EXCEPT !.exc = NoExc]
  ELSE r

_read_messages(net) == ReadEnd(ReadLoop(net.frames, net.ending, <<>>, 0))

RECURSIVE Dispatch(_, _, _)
\* for m in messages: ... (lines 195-201); a missing key raises KeyError
Dispatch(messages, result, exit_status) ==
  IF messages = <<>>
  THEN [exc |-> NoExc, result |-> result, exit_status |-> exit_status]
  ELSE LET m == Head(messages)
           rest == Tail(messages)
           KeyError == [exc |-> "KeyError", result |-> result, exit_status |-> exit_status]
       IN  IF "msgtype" \notin DOMAIN m THEN KeyError
           ELSE IF m.msgtype = "write"
           THEN IF "data" \notin DOMAIN m THEN KeyError
                ELSE Dispatch(rest, add_output(result, m.data), exit_status)
           ELSE IF m.msgtype = "shape"
           THEN IF "shape" \notin DOMAIN m THEN KeyError
                ELSE Dispatch(rest, add_shape(result, m.shape), exit_status)
           ELSE IF m.msgtype = "exitstatus"
           THEN IF "exitstatus" \notin DOMAIN m THEN KeyError
                ELSE Dispatch(rest, result, m.exitstatus)
           ELSE Dispatch(rest, result, exit_status)

\* exit_status = -1
NoExitStatus == -1

\* the exec message of lines 178-189
ExecMessage(code, is_sketch) ==
  [msgtype |-> "exec", runtime |-> "python", code |-> code,
   env |-> IF is_sketch THEN << <<"SKETCH", "yes">> >> ELSE <<>>,
   files |-> "get_livecode_files()", command |-> <<"python", "start.py">>]

\* lines 193-201 with each message dispatched as soon as it is read, so that
\* a failing read comes after the dispatch of the messages before it
DispatchWhileReading(msg, rd) ==
  LET d == Dispatch(rd.messages, NewResult, NoExitStatus)
  IN  IF d.exc # NoExc
      THEN d @@ [sent |-> <<msg>>, recvs |-> rd.recvs]
      ELSE [exc |-> rd.exc, result |-> d.result, exit_status |-> d.exit_status,
            sent |-> <<msg>>, recvs |-> rd.recvs]

\* lines 193-201, the exec message sent: rd is what _read_messages did
ReceiveAndDispatch(msg, rd) ==
  IF rd.exc # NoExc
  THEN [exc |-> rd.exc, result |-> NewResult, exit_status |-> NoExitStatus,
        sent |-> <<msg>>, recvs |-> rd.recvs]
  ELSE Dispatch(rd.messages, NewResult, NoExitStatus)
         @@ [sent |-> <<msg>>, recvs |-> rd.recvs]

\* the body of the try of lines 191-201
ExchangeBody(msg, net) ==
  IF net.send # "ok"
  THEN [exc |-> net.send, result |-> NewResult, exit_status |-> NoExitStatus,
        sent |-> <<>>, recvs |-> 0]
  ELSE ReceiveAndDispatch(msg, _read_messages(net))

\* lines 205-206 without the test
ExitCheckSkipped(result, exit_status) == result

\* if exit_status != 0: result.status = "failed"
ExitCheck(result, exit_status) ==
  IF exit_status # 0 THEN [result EXCEPT !.status = "failed"] ELSE result

\* lines 202-207 with `pass` as the except clause's body
ExchangeEndWithoutMark(body) ==
  LET caught == body.exc # NoExc /\ IsInstance(body.exc, ExecuteCatches)
  IN  IF body.exc # NoExc /\ ~caught
      THEN [exc |-> body.exc, result |-> body.result, sent |-> body.sent,
            recvs |-> body.recvs]
      ELSE [exc |-> NoExc, result |-> ExitCheck(body.result, body.exit_status),
            sent |-> body.sent, recvs |-> body.recvs]

\* lines 202-207: body is what the try body did
ExchangeEnd(body) ==
  LET caught == body.exc # NoExc /\ IsInstance(body.exc, ExecuteCatches)
      result == IF caught THEN mark_failed(body.result, "connection-reset")
                ELSE body.result
  IN  IF body.exc # NoExc /\ ~caught
      THEN [exc |-> body.exc, result |-> result, sent |-> body.sent,
            recvs |-> body.recvs]
      ELSE [exc |-> NoExc, result |-> ExitCheck(result, body.exit_status),
            sent |-> body.sent, recvs |-> body.recvs]

\* the outcome: exc, the result returned when exc = NoExc, the messages sent
\* and the number of ws.recv calls made
LiveCode_execute(code, is_sketch, net) ==
  IF net.conn # "ok"
  THEN IF IsInstance(net.conn, ExecuteCatches)
       THEN [exc |-> NoExc, result |-> mark_failed(NewResult, "connection-failed"),
             sent |-> <<>>, recvs |-> 0]
       ELSE [exc |-> net.conn, result |-> NewResult, sent |-> <<>>, recvs |-> 0]
  ELSE ExchangeEnd(ExchangeBody(ExecMessage(code, is_sketch), net))

(***************************************************************************)
(* execute and record_code_run                                             *)
(***************************************************************************)
\* result.status.title()
Title(status) == IF status = "failed" THEN "Failed" ELSE "Success"

\* context = context or {} and the six context.get(...): a record of the six,
\* "None" where the key is absent
NoContext ==
  [course |-> "None", lesson |-> "None", batch |-> "None", sketch |-> "None",
   exercise |-> "None", example |-> "None"]

\* save_ok: whether frappe.get_doc(...) and doc.save(...) go through.
\* The outcome: exc, and the Code Run saved, if one was.
record_code_run(code, result, context, save_ok) ==
  LET source_type == IF context.sketch # "None" THEN "Sketch"
                     ELSE IF context.exercise # "None" THEN "Exercise"
                     ELSE "Example"
      details == IF result.status = "failed" THEN find_exception_details(result)
                 ELSE [exc |-> NoExc, val |-> <<None, None>>]
  IN  IF details.exc # NoExc
      THEN [exc |-> details.exc, saved |-> FALSE, doc |-> <<>>]
      ELSE IF save_ok
      THEN [exc |-> NoExc, saved |-> TRUE,
            doc |-> <<[code |-> code, status |-> Title(result.status),
                       source_type |-> source_type, sketch |-> context.sketch,
                       exercise |-> context.exercise, example |-> context.example,
                       failure_type |-> details.val[1], error |-> details.val[2]]>>]
      \* except Exception: print and go on
      ELSE [exc |-> NoExc, saved |-> FALSE, doc |-> <<>>]

\* lines 32-33: lc is what LiveCode.execute did
RecordAndReturn(code, context, save_ok, lc) ==
  LET none == [exc |-> NoExc, saved |-> FALSE, doc |-> <<>>]
  IN  IF lc.exc # NoExc
      THEN [exc |-> lc.exc, val |-> NewResult, lc |-> lc, run |-> none]
      ELSE LET run == record_code_run(code, lc.result, context, save_ok)
           IN  IF run.exc # NoExc
               THEN [exc |-> run.exc, val |-> NewResult, lc |-> lc, run |-> run]
               ELSE [exc |-> NoExc, val |-> as_dict(lc.result), lc |-> lc, run |-> run]

\* the whitelisted execute(code, is_sketch, context)
execute(code, is_sketch, context, net, save_ok) ==
  RecordAndReturn(code, context, save_ok, LiveCode_execute(code, is_sketch, net))

(***************************************************************************)
(* livecode_to_svg and LMSSketch.to_svg / render_svg (the definition of    *)
(* lines 88-99, which replaces the one of lines 25-44 in the class)        *)
(***************************************************************************)
DEFAULT_IMAGE ==
  <<
     "\n","<","s","v","g"," ","v","i","e","w","B","o","x","=","\"","0"," ","0"," ","3","0","0",
     " ","3","0","0","\""," ","w","i","d","t","h","=","\"","3","0","0","\""," ","x","m","l","n",
     "s","=","\"","h","t","t","p",":","/","/","w","w","w",".","w","3",".","o","r","g","/","2",
     "0","0","0","/","s","v","g","\"",">","\n","<","/","s","v","g",">","\n" >>

\* lines 87-90 without the test of the status
ResultToSvgWhateverStatus(r) ==
  LET status == IF r.lc.exc = NoExc THEN r.lc.result.status ELSE "none"
  IN  IF r.exc # NoExc
      THEN [exc |-> r.exc, val |-> None, status |-> status, sent |-> r.lc.sent]
      ELSE LET svg == _render_svg(r.val.shapes)
           IN  IF svg.exc # NoExc
               THEN [exc |-> svg.exc, val |-> None, status |-> status, sent |-> r.lc.sent]
               ELSE [exc |-> NoExc, val |-> StrV(svg.svg), status |-> status,
                     sent |-> r.lc.sent]

\* lines 87-90, r being what execute did.  The outcome: exc and the value
\* returned; status is the status the execution ended with ("none" when
\* LiveCode.execute raised) and sent the messages it sent
ResultToSvg(r) ==
  LET status == IF r.lc.exc = NoExc THEN r.lc.result.status ELSE "none"
  IN  IF r.exc # NoExc
      THEN [exc |-> r.exc, val |-> None, status |-> status, sent |-> r.lc.sent]
      ELSE IF r.val.status # "success"
      THEN [exc |-> NoExc, val |-> None, status |-> status, sent |-> r.lc.sent]
      ELSE LET svg == _render_svg(r.val.shapes)
           IN  IF svg.exc # NoExc
               THEN [exc |-> svg.exc, val |-> None, status |-> status, sent |-> r.lc.sent]
               ELSE [exc |-> NoExc, val |-> StrV(svg.svg), status |-> status,
                     sent |-> r.lc.sent]

livecode_to_svg(code, is_sketch, net, save_ok) ==
  ResultToSvg(execute(code, is_sketch, NoContext, net, save_ok))

\* "sketch-" + hashlib.md5(self.code.encode('utf-8')).hexdigest()
CacheKey(code) == [prefix |-> "sketch-", md5 |-> code]

\* what the cache keeps of a str handed to cache.set
Utf8Encode(text) == [t |-> "bytes", v |-> text.v]

\* value.decode('utf-8')
Utf8Decode(bytes) == StrV(bytes.v)

\* bool(value) of a str, of bytes or of None
NonEmpty(x) == x # None /\ x.v # <<>>

\* value = cache.get(key), taken to be empty whatever the cache holds
CacheLookupSkipped(key) == None

\* value = cache.get(key)
CacheLookup(key) == cache[key]

\* return value or DEFAULT_IMAGE
ValueOrDefault(value) == IF NonEmpty(value) THEN value ELSE StrV(DEFAULT_IMAGE)

(***************************************************************************)
(* Inputs of the classifier                                                *)
(***************************************************************************)
ChunkTraceback == TRACEBACK_MARKER \o <<"\n">>

ChunkTracebackHead == SubSeq(TRACEBACK_MARKER, 1, 15)

ChunkTracebackTail == SubSeq(TRACEBACK_MARKER, 16, Len(TRACEBACK_MARKER)) \o <<"\n">>

ChunkValueError ==
  <<"V","a","l","u","e","E","r","r","o","r",":"," ","b","a","d"," ","i","n","p","u","t","\n">>

ChunkBareError == <<"V","a","l","u","e","E","r","r","o","r","\n">>

ChunkSpaced ==
  <<" ","K","e","y","E","r","r","o","r"," ",":"," ","'","a",":","b","'"," ","\n">>

ChunkNewline == <<"\n">>

ClassifierChunks ==
  {ChunkTraceback, ChunkTracebackHead, ChunkTracebackTail, ChunkValueError,
   ChunkBareError, ChunkSpaced, ChunkNewline}

SeqsUpTo(S, n) == UNION {[1..k -> S] : k \in 0..n}

ClassifierInputs ==
  {[NewResult EXCEPT !.status = s, !.output = o] :
     s \in {"success", "failed"}, o \in SeqsUpTo(ClassifierChunks, MaxChunks)}

(***************************************************************************)
(* Inputs of the renderer                                                  *)
(***************************************************************************)
T_g == <<"g">>

T_circle == <<"c", "i", "r", "c", "l", "e">>

\* {"tag": "circle", "cx": 0, "cy": 0, "r": 50, "fill": "red"}
Circle ==
  << <<K_tag, StrV(T_circle)>>, <<<<"c", "x">>, IntV(0)>>, <<<<"c", "y">>, IntV(0)>>,
     <<<<"r">>, IntV(50)>>, <<<<"f", "i", "l", "l">>, StrV(<<"r", "e", "d">>)>> >>

AttrLists ==
  { <<>>,
    << <<<<"i", "d">>, StrV(<<"a", "<", "b", ">", "&", "\"", "'">>)>> >>,
    << <<<<"s", "_", "w">>, IntV(-5)>>, <<<<"x">>, None>>,
       <<<<"d">>, StrV(<<"&", "a", "m", "p", ";">>)>> >> }

\* a dict with no "tag" entry
Untagged == << <<<<"r">>, IntV(7)>> >>

Leaves == {<< <<K_tag, StrV(T_g)>> >> \o a : a \in AttrLists} \cup {Circle, Untagged}

RECURSIVE Nodes(_)
Nodes(d) ==
  IF d = 0 THEN Leaves
  ELSE LET below == Nodes(d - 1)
           kids == {<<>>} \cup {<<c>> : c \in below} \cup {<<c, Circle>> : c \in Leaves}
       IN  below \cup
           {<< <<K_tag, StrV(T_g)>> >> \o a \o << <<K_children, ListV(k)>> >> :
              a \in AttrLists, k \in kids}

ShapeLists ==
  {<<>>} \cup {<<n>> : n \in Nodes(MaxDepth)}
         \cup {<<n, m>> : n \in Nodes(MaxDepth), m \in Leaves}


(***************************************************************************)
(* Inputs of execute: what the livecode server and the network do          *)
(***************************************************************************)
Codes == {"code-a", "code-b"}

SketchContext == [NoContext EXCEPT !.sketch = "SKETCH-1"]

\* (is_sketch, context) of a call
CallKinds == {<<FALSE, NoContext>>, <<TRUE, SketchContext>>}

Frame(obj) == [json |-> TRUE, obj |-> obj]

\* a text that is not JSON
Garbage == [json |-> FALSE, obj |-> [raw |-> "{"]]

WireChunks == {ChunkTraceback, ChunkValueError, ChunkBareError}

WireFrames ==
  {Frame([msgtype |-> "write", data |-> c]) : c \in WireChunks}
    \cup {Frame([msgtype |-> "shape", shape |-> s]) : s \in {Circle, Untagged}}
    \cup {Frame([msgtype |-> "exitstatus", exitstatus |-> n]) : n \in {0, 1}}
    \cup {Frame([msgtype |-> "ping"]), Frame([msgtype |-> "write"]), Garbage}

ConnFailures ==
  {"ConnectionRefusedError", "WebSocketBadStatusException", "WebSocketTimeoutException"}

SendFailures ==
  {"BrokenPipeError", "WebSocketConnectionClosedException", "WebSocketTimeoutException"}

Endings ==
  {"close", "WebSocketTimeoutException", "WebSocketConnectionClosedException",
   "ConnectionResetError"}

NoNet == [conn |-> "ok", send |-> "ok", frames |-> <<>>, ending |-> "close"]

Nets ==
  {[NoNet EXCEPT !.conn = c] : c \in ConnFailures}
    \cup {[NoNet EXCEPT !.send = s] : s \in SendFailures}
    \cup {[NoNet EXCEPT !.frames = f, !.ending = e] :
            f \in SeqsUpTo(WireFrames, MaxFrames), e \in Endings}

(***************************************************************************)
(* The classifier, the renderer and execute, applied                       *)
(***************************************************************************)
IdleClassifier ==
  clf = [self |-> NewResult, called |-> TRUE, exc |-> NoExc, val |-> <<None, None>>]

IdleRenderer == shapes0 = <<>> /\ shapes = <<>> /\ renders = <<>>

IdleCall ==
  [phase |-> "idle", code |-> "code-a", is_sketch |-> FALSE, context |-> NoContext,
   net |-> NoNet, save_ok |-> TRUE,
   out |-> execute("code-a", FALSE, NoContext, NoNet, TRUE)]

IdleExecute == xc = IdleCall

\* result.find_exception_details()
Classify ==
  /\ ~clf.called
  /\ LET r == find_exception_details(clf.self)
     IN  clf' = [clf EXCEPT !.called = TRUE, !.exc = r.exc, !.val = r.val]
  /\ UNCHANGED <<shapes0, shapes, renders, xc, cache, first, rq>>

\* _render_svg(result['shapes'])
Render ==
  /\ Len(renders) < MaxRenders
  /\ LET r == _render_svg(shapes)
     IN  /\ renders' = Append(renders, [exc |-> r.exc, svg |-> r.svg])
         /\ shapes' = r.shapes
  /\ UNCHANGED <<clf, shapes0, xc, cache, first, rq>>

\* one request to the whitelisted execute
Execute ==
  /\ xc.phase = "idle"
  /\ \E code \in Codes, kind \in CallKinds, net \in Nets, save_ok \in BOOLEAN :
       xc' = [phase |-> "returned", code |-> code, is_sketch |-> kind[1],
              context |-> kind[2], net |-> net, save_ok |-> save_ok,
              out |-> execute(code, kind[1], kind[2], net, save_ok)]
  /\ UNCHANGED <<clf, shapes0, shapes, renders, cache, first, rq>>

\* the request is over; the next one starts from nothing
NextRequest ==
  /\ xc.phase = "returned"
  /\ xc' = IdleCall
  /\ UNCHANGED <<clf, shapes0, shapes, renders, cache, first, rq>>

(***************************************************************************)
(* The render path: callers in to_svg / render_svg, sharing the cache      *)
(***************************************************************************)
Callers == 1..NumCallers

Keys == {CacheKey(c) : c \in Codes}

CircleSvg == _render_svg(<<Circle>>).svg

\* LMS Sketch documents: runtime 'python-canvas' is what save_sketch sets,
\* 'sketch' the old version; svg is what before_save left in the document
Sketches ==
  {[code |-> c, runtime |-> r, svg |-> StrV(<<>>)] :
     c \in Codes, r \in {"python-canvas", "sketch"}}
    \cup {[code |-> "code-a", runtime |-> "python-canvas", svg |-> StrV(CircleSvg)]}

\* what livecode_to_svg(code) can give, over all the network can do
SvgOutcomes ==
  {<<c, livecode_to_svg(c, FALSE, net, save_ok)>> :
     c \in Codes, net \in Nets, save_ok \in BOOLEAN}

IdleCaller ==
  [pc |-> "idle", sketch |-> [code |-> "code-a", runtime |-> "python-canvas", svg |-> StrV(<<>>)],
   warm |-> FALSE, seen |-> None, value |-> None, status |-> "none", sent |-> <<>>,
   executed |-> FALSE, wrote |-> FALSE, exc |-> NoExc, ret |-> None]

IdleCache ==
  /\ cache = [k \in Keys |-> None]
  /\ first = [k \in Keys |-> None]
  /\ rq = [p \in Callers |-> IdleCaller]

\* to_svg on a document that holds its svg: return self.svg
ToSvgStored(p) ==
  /\ rq[p].pc = "idle"
  /\ \E sk \in Sketches :
       /\ NonEmpty(sk.svg)
       /\ rq' = [rq EXCEPT ![p] = [IdleCaller EXCEPT !.pc = "done", !.sketch = sk,
                                                     !.ret = sk.svg]]
  /\ UNCHANGED <<clf, shapes0, shapes, renders, xc, cache, first>>

\* render_svg, called by to_svg on a document without svg or directly:
\* lines 89-94, up to the return of a cached value
Lookup(p) ==
  /\ rq[p].pc = "idle"
  /\ \E sk \in Sketches :
       LET value == CacheLookup(CacheKey(sk.code))
           warm == first[CacheKey(sk.code)] # None
       IN  rq' = [rq EXCEPT ![p] =
                    IF NonEmpty(value)
                    THEN [IdleCaller EXCEPT !.pc = "done", !.sketch = sk, !.warm = warm,
                                            !.seen = value, !.ret = Utf8Decode(value)]
                    ELSE [IdleCaller EXCEPT !.pc = "miss", !.sketch = sk, !.warm = warm,
                                            !.seen = value]]
  /\ UNCHANGED <<clf, shapes0, shapes, renders, xc, cache, first>>

\* value = livecode.livecode_to_svg(self.code); an exception leaves render_svg
Generate(p) ==
  /\ rq[p].pc = "miss"
  /\ \E o \in SvgOutcomes :
       /\ o[1] = rq[p].sketch.code
       /\ rq' = [rq EXCEPT ![p] =
                   [@ EXCEPT !.pc = IF o[2].exc # NoExc THEN "done" ELSE "computed",
                             !.value = o[2].val, !.status = o[2].status,
                             !.sent = o[2].sent, !.executed = TRUE, !.exc = o[2].exc]]
  /\ UNCHANGED <<clf, shapes0, shapes, renders, xc, cache, first>>

\* if value: cache.set(key, value); return value or DEFAULT_IMAGE
Store(p) ==
  /\ rq[p].pc = "computed"
  /\ LET key == CacheKey(rq[p].sketch.code)
         value == rq[p].value
     IN  /\ cache' = IF NonEmpty(value) THEN [cache EXCEPT ![key] = Utf8Encode(value)]
                     ELSE cache
         /\ first' = IF NonEmpty(value) /\ first[key] = None
                     THEN [first EXCEPT ![key] = value] ELSE first
         /\ rq' = [rq EXCEPT ![p] = [@ EXCEPT !.pc = "done", !.wrote = NonEmpty(value),
                                              !.ret = ValueOrDefault(value)]]
  /\ UNCHANGED <<clf, shapes0, shapes, renders, xc>>

\* the caller has its answer and is free for another request
Finish(p) ==
  /\ rq[p].pc = "done"
  /\ rq' = [rq EXCEPT ![p] = IdleCaller]
  /\ UNCHANGED <<clf, shapes0, shapes, renders, xc, cache, first>>

InitClassify ==
  /\ clf \in {[self |-> r, called |-> FALSE, exc |-> NoExc, val |-> <<None, None>>] :
                r \in ClassifierInputs}
  /\ IdleRenderer
  /\ IdleExecute
  /\ IdleCache

NextClassify == Classify

SpecClassify == InitClassify /\ [][NextClassify]_vars

InitRender ==
  /\ IdleClassifier
  /\ shapes0 \in ShapeLists
  /\ shapes = shapes0
  /\ renders = <<>>
  /\ IdleExecute
  /\ IdleCache

NextRender == Render

SpecRender == InitRender /\ [][NextRender]_vars

InitExec == IdleClassifier /\ IdleRenderer /\ IdleExecute /\ IdleCache

NextExec == Execute \/ NextRequest

SpecExec == InitExec /\ [][NextExec]_vars

Init == IdleClassifier /\ IdleRenderer /\ IdleExecute /\ IdleCache

Next ==
  \E p \in Callers :
    ToSvgStored(p) \/ Lookup(p) \/ Generate(p) \/ Store(p) \/ Finish(p)

Spec == Init /\ [][Next]_vars

(***************************************************************************)
(* What the claims speak of                                                *)
(***************************************************************************)
Returned == xc.phase = "returned"

\* LiveCode.execute returned a result to the whitelisted execute
ResultReturned == Returned /\ xc.out.lc.exc = NoExc

ConnectionFailed == xc.net.conn # "ok"

\* the send failed, or a receive failed with something other than a timeout
ExchangeFailed ==
  xc.net.send # "ok" \/ xc.net.ending \notin {"close", "WebSocketTimeoutException"}

\* the codes of the exitstatus messages received, in arrival order
ExitCodesReceived ==
  LET f == xc.net.frames
      at == {i \in 1..Len(f) : /\ f[i].json
                                /\ "msgtype" \in DOMAIN f[i].obj
                                /\ f[i].obj.msgtype = "exitstatus"}
      nth[k \in 0..Len(f)] ==
        IF k = 0 THEN <<>>
        ELSE IF k \in at THEN Append(nth[k - 1], f[k].obj.exitstatus) ELSE nth[k - 1]
  IN  nth[Len(f)]

(* C1: every result LiveCode.execute returns has status 'failed' exactly    *)
(* when the connection failed, or the send or a receive failed, or no       *)
(* exitstatus message was received, or the last one received carried a      *)
(* non-zero code; otherwise its status is 'success'.                        *)
C1_StatusFailedIff ==
  ResultReturned =>
    LET status == xc.out.lc.result.status
        codes == ExitCodesReceived
    IN  /\ status \in {"success", "failed"}
        /\ status = "failed" <=>
             \/ ConnectionFailed
             \/ ExchangeFailed
             \/ codes = <<>>
             \/ codes[Len(codes)] # 0

\* Scenario E: the channel closes normally and no exitstatus ever arrived
C1_Witness ==
  /\ ResultReturned
  /\ ~ConnectionFailed /\ ~ExchangeFailed
  /\ xc.net.ending = "close"
  /\ xc.net.frames # <<>>
  /\ ExitCodesReceived = <<>>
  /\ xc.out.lc.result.status = "failed"

(* C8: when opening the connection fails, LiveCode.execute returns at once  *)
(* with status 'failed', error code 'connection-failed', empty output and   *)
(* shapes, having sent no message and attempted no receive.                 *)
C8_ConnectFailure ==
  (Returned /\ ConnectionFailed) =>
    /\ xc.out.lc.exc = NoExc
    /\ xc.out.lc.result = [status |-> "failed", error_code |-> "connection-failed",
                           output |-> <<>>, shapes |-> <<>>]
    /\ xc.out.lc.sent = <<>>
    /\ xc.out.lc.recvs = 0

\* the handshake is refused
C8_Witness ==
  /\ Returned
  /\ xc.net.conn = "WebSocketBadStatusException"
  /\ xc.out.lc.result.error_code = "connection-failed"

(* C9: a failure while recording an execution never affects execute: once   *)
(* LiveCode.execute has returned a result, the whitelisted execute returns  *)
(* that result's dictionary and raises nothing.                             *)
C9_RecordingNeverAffectsExecute ==
  ResultReturned =>
    /\ xc.out.exc = NoExc
    /\ xc.out.val = as_dict(xc.out.lc.result)

\* the output holds the traceback marker
HasMarker(output) == Contains(Concat(output), TRACEBACK_MARKER)

(* C6: the classifier never raises: for a failed result whose output holds  *)
(* the traceback marker and whose last chunk has no colon,                  *)
(* find_exception_details returns (None, None).                             *)
C6_ClassifierNeverRaises ==
  LET r == clf.self
  IN  ( /\ clf.called
        /\ r.status = "failed"
        /\ r.output # <<>>
        /\ HasMarker(r.output)
        /\ ":" \notin Range(r.output[Len(r.output)]) )
      => (clf.exc = NoExc /\ clf.val = <<None, None>>)

(* C7: find_exception_details returns (None, None) when the status is not   *)
(* 'failed', the output is empty or the joined output lacks the marker;     *)
(* otherwise it returns the last chunk split at its first colon into        *)
(* (kind, message), both stripped.                                          *)
C7_ClassifierResult ==
  LET r == clf.self
      last == r.output[Len(r.output)]
  IN  clf.called =>
        /\ clf.exc = NoExc
        /\ IF r.status # "failed" \/ r.output = <<>> \/ ~HasMarker(r.output)
           THEN clf.val = <<None, None>>
           ELSE \E i \in 1..Len(last) :
                  /\ last[i] = ":"
                  /\ \A j \in 1..(i - 1) : last[j] # ":"
                  /\ clf.val = <<StrV(Strip(SubSeq(last, 1, i - 1))),
                                 StrV(Strip(SubSeq(last, i + 1, Len(last))))>>

(* C5: _render_svg called repeatedly on the shapes of one execution result  *)
(* gives the same markup on every call.                                     *)
C5_RenderDeterministic ==
  \A i, j \in 1..Len(renders) : renders[i] = renders[j]

\* the attribute values of a node and of the nodes below it, as str() gives
\* them, in document order; None values are not attributes of the markup
RECURSIVE ValuesBelow(_)
RECURSIVE ValuesOfEach(_)

ValuesOfEach(nodes) ==
  IF nodes = <<>> THEN <<>> ELSE ValuesBelow(Head(nodes)) \o ValuesOfEach(Tail(nodes))

ValuesBelow(node) ==
  LET own == SelectSeq(node, LAMBDA e : e[1] \notin {K_tag, K_children} /\ e[2] # None)
      kids == IF HasKey(node, K_children) /\ Get(node, K_children).t = "list"
              THEN Get(node, K_children).v ELSE <<>>
  IN  [i \in 1..Len(own) |-> PyStr(own[i][2])] \o ValuesOfEach(kids)

\* the texts between =" and the next " of a markup, in order
RECURSIVE QuotedFrom(_, _)
QuotedFrom(m, i) ==
  LET opens == {j \in i..(Len(m) - 1) : m[j] = "=" /\ m[j + 1] = "\""}
  IN  IF opens = {} THEN <<>>
      ELSE LET j == Min(opens)
               closes == {k \in (j + 2)..Len(m) : m[k] = "\""}
           IN  IF closes = {} THEN <<SubSeq(m, j + 2, Len(m))>>
               ELSE <<SubSeq(m, j + 2, Min(closes) - 1)>> \o QuotedFrom(m, Min(closes) + 1)

Entities ==
  { <<<<"&", "a", "m", "p", ";">>, "&">>, <<<<"&", "l", "t", ";">>, "<">>,
    <<<<"&", "g", "t", ";">>, ">">>, <<<<"&", "q", "u", "o", "t", ";">>, "\"">>,
    <<<<"&", "#", "x", "2", "7", ";">>, "'">> }

\* the entity reference s has at i, if it has one there
EntityAt(s, i) ==
  {e \in Entities : i + Len(e[1]) - 1 <= Len(s) /\ SubSeq(s, i, i + Len(e[1]) - 1) = e[1]}

\* no markup character stands in s as itself
Escaped(s) ==
  \A i \in 1..Len(s) :
    /\ s[i] \notin {"<", ">", "\""}
    /\ s[i] = "&" => EntityAt(s, i) # {}

\* the text an escaped s stands for
RECURSIVE Unescape(_)
Unescape(s) ==
  IF s = <<>> THEN <<>>
  ELSE IF EntityAt(s, 1) # {}
  THEN LET e == CHOOSE x \in EntityAt(s, 1) : TRUE
       IN  <<e[2]>> \o Unescape(SubSeq(s, Len(e[1]) + 1, Len(s)))
  ELSE <<Head(s)>> \o Unescape(Tail(s))

HasSpecial(s) == Range(s) \cap {"<", ">", "&"} # {}

\* the root element's own attribute values
HeaderValues == QuotedFrom(SVG_HEADER, 1)

(* C10: in the markup _render_svg returns, the attribute values of the      *)
(* shape trees, at every depth, stand only in escaped form: the quoted      *)
(* texts of the markup are the root element's and then, in document order,  *)
(* one per attribute value; none of them holds '<' or '>' or an '&' that    *)
(* does not begin an entity, and each one stands for its value.             *)
C10_ValuesEscaped ==
  (Len(renders) >= 1 /\ renders[1].exc = NoExc) =>
    LET values == ValuesOfEach(shapes0)
        quoted == QuotedFrom(renders[1].svg, 1)
        n == Len(HeaderValues)
    IN  /\ Len(quoted) = n + Len(values)
        /\ \A i \in 1..Len(values) :
             /\ Escaped(quoted[n + i])
             /\ Unescape(quoted[n + i]) = values[i]

K_id == <<"i", "d">>

\* a <g> holding a <g> holding a <g id="a<b>&..."> was rendered
C10_Witness ==
  /\ Len(renders) >= 1 /\ renders[1].exc = NoExc
  /\ Len(shapes0) = 1
  /\ LET top == shapes0[1]
     IN  /\ HasKey(top, K_children) /\ Len(Get(top, K_children).v) = 1
         /\ LET mid == Get(top, K_children).v[1]
            IN  /\ HasKey(mid, K_children) /\ Len(Get(mid, K_children).v) = 1
                /\ LET low == Get(mid, K_children).v[1]
                   IN  /\ HasKey(low, K_id)
                       /\ HasSpecial(PyStr(Get(low, K_id)))

Done(p) == rq[p].pc = "done"

(* C2: the render path never raises to its caller: every to_svg /           *)
(* render_svg call returns rendered markup or DEFAULT_IMAGE.                *)
C2_RenderNeverRaises ==
  \A p \in Callers :
    Done(p) => (rq[p].exc = NoExc /\ NonEmpty(rq[p].ret))

(* C3: a render whose execution ends with status 'failed' returns           *)
(* DEFAULT_IMAGE and makes no cache.set.                                    *)
C3_FailedRenderReturnsPlaceholder ==
  \A p \in Callers :
    (Done(p) /\ rq[p].executed /\ rq[p].status = "failed") =>
      /\ rq[p].exc = NoExc
      /\ rq[p].ret = StrV(DEFAULT_IMAGE)
      /\ ~rq[p].wrote

(* C4, as claimed: once a render_svg call for a code has stored its markup, *)
(* every later render_svg call for that code returns that same markup,      *)
(* without executing and without writing the cache.                         *)
C4_ReturnsFirstStored ==
  \A p \in Callers :
    rq[p].warm =>
      /\ Done(p) /\ rq[p].exc = NoExc
      /\ rq[p].ret = first[CacheKey(rq[p].sketch.code)]
      /\ ~rq[p].executed
      /\ ~rq[p].wrote

(* C4, amended: once a render_svg call for a code has stored its markup,    *)
(* every later render_svg call for that code returns the markup that is     *)
(* stored under the key when it looks the key up, without executing and     *)
(* without writing the cache.                                               *)
C4_WarmCallReturnsStored ==
  \A p \in Callers :
    rq[p].warm =>
      /\ Done(p) /\ rq[p].exc = NoExc
      /\ rq[p].seen # None
      /\ rq[p].ret = Utf8Decode(rq[p].seen)
      /\ ~rq[p].executed
      /\ ~rq[p].wrote

\* a call made after a store returned what the first store left there
C4_Witness ==
  \E p \in Callers :
    /\ rq[p].warm /\ Done(p)
    /\ rq[p].ret = first[CacheKey(rq[p].sketch.code)]
    /\ rq[p].ret = StrV(CircleSvg)

\* the element the claim describes for a node: each attribute that is not
\* None as name="value", names hyphenated, in the node's order; self-closing
\* without children, else the children's elements, one per line, between an
\* opening and a closing tag
RECURSIVE ElementOf(_)
RECURSIVE ElementsOf(_)

ElementsOf(nodes) ==
  IF nodes = <<>> THEN <<>> ELSE <<ElementOf(Head(nodes))>> \o ElementsOf(Tail(nodes))

ElementOf(node) ==
  LET tag == Get(node, K_tag).v
      own == SelectSeq(node, LAMBDA e : e[1] \notin {K_tag, K_children} /\ e[2] # None)
      pair(e) == Replace(e[1], "_", <<"-">>) \o <<"=", "\"">>
                   \o html_escape(PyStr(e[2])) \o <<"\"">>
      attrs == JoinWith(<<" ">>, [i \in 1..Len(own) |-> pair(own[i])])
      kids == IF HasKey(node, K_children) /\ Get(node, K_children).t = "list"
              THEN Get(node, K_children).v ELSE <<>>
  IN  IF kids = <<>>
      THEN <<"<">> \o tag \o <<" ">> \o attrs \o <<" ", "/", ">">>
      ELSE <<"<">> \o tag \o <<" ">> \o attrs \o <<">">>
             \o JoinWith(<<"\n">>, ElementsOf(kids))
             \o <<"<", "/">> \o tag \o <<">">>

\* <circle cx="0" cy="0" r="50" fill="red" />
CircleElement ==
  <<"<","c","i","r","c","l","e"," ","c","x","=","\"","0","\""," ","c","y","=","\"","0","\"",
    " ","r","=","\"","5","0","\""," ","f","i","l","l","=","\"","r","e","d","\""," ","/",">">>

(* C11: _render_shape renders a node with its attribute names hyphenated,   *)
(* its None attributes dropped and the others in their order as             *)
(* name="value", self-closing when it has no children and otherwise as an   *)
(* opening tag, its children's renderings in order and a closing tag: the   *)
(* markup of a first _render_svg call is the header, these elements one per *)
(* line, and the footer; the childless red circle renders to exactly        *)
(* <circle cx="0" cy="0" r="50" fill="red" />.                              *)
C11_ShapeMarkup ==
  /\ ElementOf(Circle) = CircleElement
  /\ (Len(renders) >= 1 /\ renders[1].exc = NoExc) =>
       renders[1].svg = SVG_HEADER \o JoinWith(<<"\n">>, ElementsOf(shapes0))
                          \o <<"\n">> \o SVG_FOOTER

\* a <g> with s_w, a None attribute and children, followed by the circle
C11_Witness ==
  /\ Len(renders) >= 1 /\ renders[1].exc = NoExc
  /\ Len(shapes0) = 2 /\ shapes0[2] = Circle
  /\ HasKey(shapes0[1], <<"s", "_", "w">>)
  /\ HasKey(shapes0[1], K_children) /\ Get(shapes0[1], K_children).v # <<>>
  /\ Contains(renders[1].svg, CircleElement)
  /\ Contains(renders[1].svg, <<"s", "-", "w", "=", "\"", "-", "5", "\"">>)

\* a message that has the field its handling reads
HasItsField(m) ==
  /\ "msgtype" \in DOMAIN m
  /\ m.msgtype = "write" => "data" \in DOMAIN m
  /\ m.msgtype = "shape" => "shape" \in DOMAIN m
  /\ m.msgtype = "exitstatus" => "exitstatus" \in DOMAIN m

WellFormed(f) == f.json /\ HasItsField(f.obj)

\* the data of the 'write' messages among the texts, in arrival order
DataOfWrites(frames) ==
  LET w == SelectSeq(frames, LAMBDA f : WellFormed(f) /\ f.obj.msgtype = "write")
  IN  [i \in 1..Len(w) |-> w[i].obj.data]

\* the shapes of the 'shape' messages among the texts, in arrival order
ShapesOfShapes(frames) ==
  LET w == SelectSeq(frames, LAMBDA f : WellFormed(f) /\ f.obj.msgtype = "shape")
  IN  [i \in 1..Len(w) |-> w[i].obj.shape]

\* the exit codes of the 'exitstatus' messages among the texts, in arrival order
CodesOfExits(frames) ==
  LET w == SelectSeq(frames, LAMBDA f : WellFormed(f) /\ f.obj.msgtype = "exitstatus")
  IN  [i \in 1..Len(w) |-> w[i].obj.exitstatus]

ExitedZero(frames) ==
  LET codes == CodesOfExits(frames)
  IN  codes # <<>> /\ codes[Len(codes)] = 0

\* every text was read and decoded, and the ws.recv after them timed out
ReadTimedOut ==
  /\ Returned
  /\ xc.net.conn = "ok" /\ xc.net.send = "ok"
  /\ xc.net.ending = "WebSocketTimeoutException"
  /\ \A i \in 1..Len(xc.net.frames) : xc.net.frames[i].json

(* C12: a timeout on a read is not an error: LiveCode.execute returns a      *)
(* result that keeps every message received before the timeout, has no      *)
(* error code, and has status 'success' exactly when the last exit status   *)
(* received is 0.                                                           *)
C12_ReadTimeoutKeepsMessages ==
  ReadTimedOut =>
    /\ xc.out.lc.exc = NoExc
    /\ xc.out.lc.result.output = DataOfWrites(xc.net.frames)
    /\ xc.out.lc.result.shapes = ShapesOfShapes(xc.net.frames)
    /\ xc.out.lc.result.error_code = "None"
    /\ xc.out.lc.result.status = IF ExitedZero(xc.net.frames) THEN "success" ELSE "failed"

\* ws.send raised
SendFailed == Returned /\ xc.net.conn = "ok" /\ xc.net.send # "ok"

\* every text was read and decoded, and the ws.recv after them raised
\* something other than a timeout
ReceiveFailed ==
  /\ Returned
  /\ xc.net.conn = "ok" /\ xc.net.send = "ok"
  /\ xc.net.ending \notin {"close", "WebSocketTimeoutException"}
  /\ \A i \in 1..Len(xc.net.frames) : xc.net.frames[i].json

(* C13: an I/O failure during the send (a send timeout included) or a       *)
(* non-timeout I/O failure during a receive, wherever in the exchange it    *)
(* occurs, makes execute return status 'failed' with error code             *)
(* 'connection-reset'; neither LiveCode.execute nor execute raises.         *)
C13_ExchangeFailureIsReset ==
  (SendFailed \/ ReceiveFailed) =>
    /\ xc.out.lc.exc = NoExc
    /\ xc.out.exc = NoExc
    /\ xc.out.val.status = "failed"
    /\ xc.out.val.error_code = "connection-reset"

\* the connection is reset after an exitstatus of 0 was received
C13_Witness ==
  /\ ReceiveFailed
  /\ xc.net.ending = "ConnectionResetError"
  /\ ExitedZero(xc.net.frames)
  /\ xc.out.val.status = "failed"
  /\ xc.out.val.error_code = "connection-reset"

FailureReasons == {"connection-failed", "connection-reset", "nonzero-exit"}

\* the exchange ended by a close or a read timeout, with every message
\* dispatched, and no exit status, or a non-zero one, was observed
EndedWithoutZeroExit ==
  /\ ResultReturned
  /\ ~ConnectionFailed /\ ~ExchangeFailed
  /\ ~ExitedZero(xc.net.frames)

(* C14: when the exchange ends without a connection failure and no exit     *)
(* status, or a non-zero one, was observed, the result has status 'failed'  *)
(* and error code 'nonzero-exit'; every result with status 'failed' has an  *)
(* error code among connection-failed, connection-reset, nonzero-exit.      *)
C14_FailedHasReason ==
  /\ EndedWithoutZeroExit =>
       /\ xc.out.lc.result.status = "failed"
       /\ xc.out.lc.result.error_code = "nonzero-exit"
  /\ (ResultReturned /\ xc.out.lc.result.status = "failed") =>
       xc.out.lc.result.error_code \in FailureReasons

KnownTags == {"write", "shape", "exitstatus"}

\* the texts without the messages of other tags
OfKnownTags(frames) ==
  SelectSeq(frames, LAMBDA f : f.json /\ "msgtype" \in DOMAIN f.obj => f.obj.msgtype \in KnownTags)

\* well-formed messages were received and the exchange ended by the remote
\* close or by a read timeout
WellFormedExchange ==
  /\ Returned
  /\ xc.net.conn = "ok" /\ xc.net.send = "ok"
  /\ xc.net.ending \in {"close", "WebSocketTimeoutException"}
  /\ \A i \in 1..Len(xc.net.frames) : WellFormed(xc.net.frames[i])

(* C15: for well-formed messages in an exchange ended by remote close or    *)
(* read timeout, result.output is the data of the 'write' messages in       *)
(* arrival order, result.shapes the shapes of the 'shape' messages in       *)
(* arrival order, and the messages of any other tag change nothing: the     *)
(* result is the one the exchange gives without them.                       *)
C15_AggregatedInOrder ==
  WellFormedExchange =>
    /\ xc.out.lc.exc = NoExc
    /\ xc.out.lc.result.output = DataOfWrites(xc.net.frames)
    /\ xc.out.lc.result.shapes = ShapesOfShapes(xc.net.frames)
    /\ xc.out.lc.result =
         LiveCode_execute(xc.code, xc.is_sketch,
                          [xc.net EXCEPT !.frames = OfKnownTags(xc.net.frames)]).result

\* two different chunks were written and arrived in their order
C15_Witness ==
  /\ WellFormedExchange
  /\ Len(xc.net.frames) = 2
  /\ xc.out.lc.result.output = <<ChunkTraceback, ChunkValueError>>

\* the channel stayed up: the exchange was ended by the remote close or by a
\* read timeout, or by what a received text did to the client
ChannelStayedUp ==
  /\ Returned
  /\ xc.net.conn = "ok" /\ xc.net.send = "ok"
  /\ xc.net.ending \in {"close", "WebSocketTimeoutException"}

(* C16: a received message that cannot be decoded (not JSON, or without the *)
(* field its handling needs) is silently skipped: execute does not raise,   *)
(* and the messages before and after it are aggregated as usual.            *)
C16_UndecodableSkipped ==
  ChannelStayedUp =>
    /\ xc.out.lc.exc = NoExc
    /\ xc.out.lc.result.output = DataOfWrites(xc.net.frames)
    /\ xc.out.lc.result.shapes = ShapesOfShapes(xc.net.frames)
    /\ xc.out.lc.result.status = IF ExitedZero(xc.net.frames) THEN "success" ELSE "failed"

(* C17: the renderer only reads the shape trees: after _render_svg(shapes)  *)
(* has returned, every shape node, at every depth, has the tag, attributes  *)
(* and children it had before the call.                                     *)
C17_RendererOnlyReads ==
  (Len(renders) >= 1 /\ renders[1].exc = NoExc) => shapes = shapes0

\* the cache entry of every key is absent or a markup that a successful
\* execution of the key's code gives
EntriesAreRenderedMarkup ==
  \A k \in Keys :
    cache[k] # None =>
      \E o \in SvgOutcomes :
        /\ o[1] = k.md5
        /\ o[2].exc = NoExc /\ o[2].status = "success" /\ NonEmpty(o[2].val)
        /\ cache[k] = Utf8Encode(o[2].val)

\* a call that started after a markup was stored for its code returned a
\* cached value without executing
WarmCallsHit ==
  \A p \in Callers :
    rq[p].warm =>
      /\ Done(p) /\ rq[p].exc = NoExc
      /\ rq[p].seen # None /\ rq[p].ret = Utf8Decode(rq[p].seen)
      /\ ~rq[p].executed

\* a step that changes the entry of a key is taken by a call for that key's
\* code whose execution ended with status 'success', and stores its markup
WritesStoreOwnMarkup ==
  \A k \in Keys :
    cache'[k] # cache[k] =>
      \E p \in Callers :
        /\ rq[p].pc = "computed" /\ rq'[p].pc = "done"
        /\ CacheKey(rq[p].sketch.code) = k
        /\ rq[p].executed /\ rq[p].exc = NoExc /\ rq[p].status = "success"
        /\ cache'[k] = Utf8Encode(rq[p].value)

(* C18: with concurrent render_svg calls for one code, in every             *)
(* interleaving the cache entry of a key is absent or markup produced by a  *)
(* successful execution of that code, every write of an entry stores the    *)
(* markup of the writing call's own successful execution, and every call    *)
(* that starts after a markup was stored returns a cached value without     *)
(* executing.                                                               *)
C18_ConcurrentCacheSafe ==
  /\ [](EntriesAreRenderedMarkup /\ WarmCallsHit)
  /\ [][WritesStoreOwnMarkup]_vars

\* two calls for the same code both missed the cold cache, both executed the
\* code and both stored their markup
C18_Witness ==
  \E p, q \in Callers :
    /\ p # q
    /\ rq[p].sketch.code = rq[q].sketch.code
    /\ Done(p) /\ rq[p].executed /\ rq[p].wrote /\ ~rq[p].warm
    /\ Done(q) /\ rq[q].executed /\ rq[q].wrote /\ ~rq[q].warm
    /\ cache[CacheKey(rq[p].sketch.code)] # None

\* the exec message has SKETCH=yes in its env
HasSketchEnv(msg) == \E i \in 1..Len(msg.env) : msg.env[i] = <<"SKETCH", "yes">>

(* C19: on a cache miss render_svg executes the code with the sketch's      *)
(* runtime variant: the exec message sent has SKETCH=yes in its env exactly *)
(* when the sketch's runtime is 'sketch'.                                   *)
C19_RuntimeVariantSent ==
  \A p \in Callers :
    (rq[p].executed /\ rq[p].sent # <<>>) =>
      /\ rq[p].sent[1].msgtype = "exec"
      /\ rq[p].sent[1].code = rq[p].sketch.code
      /\ HasSketchEnv(rq[p].sent[1]) <=> rq[p].sketch.runtime = "sketch"

(* C20: whenever execute returns with error code 'connection-reset', the    *)
(* result's output and shapes are both empty: the messages received before  *)
(* the failing read are discarded.                                          *)
C20_ResetDiscardsMessages ==
  (ResultReturned /\ xc.out.lc.result.error_code = "connection-reset") =>
    /\ xc.out.lc.result.output = <<>>
    /\ xc.out.lc.result.shapes = <<>>
    /\ xc.out.val.output = <<>>
    /\ xc.out.val.shapes = <<>>

\* a write and a shape were received, then the connection was reset
C20_Witness ==
  /\ ReceiveFailed
  /\ DataOfWrites(xc.net.frames) # <<>>
  /\ ShapesOfShapes(xc.net.frames) # <<>>
  /\ xc.out.exc = NoExc
  /\ xc.out.val.error_code = "connection-reset"
  /\ xc.out.val.output = <<>>

====
